---------------------------- MODULE Spec2Model ----------------------------
(***************************************************************************)
(* A model of src/study/selection.js: text selection capture, persistence  *)
(* of the two boundary addresses in localStorage, and restoration of the   *)
(* highlight on the next load.                                             *)
(*                                                                         *)
(* The DOM is a sequence of node records indexed by node identity; a node  *)
(* created by splitText, createElement or cloneNode gets the next index.   *)
(* A node that is replaced stays in the sequence, detached, as it does in  *)
(* the JavaScript heap.  Null (0) stands for undefined / null.             *)
(*                                                                         *)
(* An operator that models a function which can throw returns a record     *)
(* with an err field; what the function had already done to the document   *)
(* when it threw is kept, as the DOM keeps it.  The stored value is the    *)
(* array of four-field objects itself: JSON.stringify and JSON.parse are   *)
(* exact on a string and three integers.                                   *)
(*                                                                         *)
(* The script may be run again on a page it already runs on (it is meant   *)
(* to be pasted into the console).  Each run registers one more mouseup     *)
(* listener; a mouseup event then calls the listeners one after the other  *)
(* on the live Range of the selection, which the DOM moves with every      *)
(* split and replacement the earlier listeners made.                       *)
(***************************************************************************)
EXTENDS Integers, Sequences, FiniteSets, TLC

\* ------------------------------------------------------------------ bounds
\* calls of the mouseup listener in a run whose selections lie in text leaves
\* (an event makes one call for every listener registered)
MaxCaptures == 2

\* calls of the mouseup listener in a run whose selections may also lie in
\* elements
MaxAnyCaptures == 2

\* runs of the script on one page load, each registering a listener
MaxListeners == 2

\* ------------------------------------------------------------- DOM helpers
Null == 0

\* the `document` node
Doc == 1

Reverse(s) == [i \in 1..Len(s) |-> s[Len(s) + 1 - i]]

RangeOf(s) == {s[i] : i \in 1..Len(s)}

IndexOf(s, x) ==
    LET at == {i \in 1..Len(s) : s[i] = x}
    IN IF at = {} THEN 0 ELSE CHOOSE i \in at : \A j \in at : i <= j

\* the concatenation of the first n sequences of ss
RECURSIVE ConcatTo(_, _)
ConcatTo(ss, n) == IF n = 0 THEN <<>> ELSE ConcatTo(ss, n - 1) \o ss[n]

Concat(ss) == ConcatTo(ss, Len(ss))

ElementNode(tag, kids) == [kind |-> "elem", tag |-> tag, data |-> <<>>, kids |-> kids]

TextNode(data) == [kind |-> "text", tag |-> "", data |-> data, kids |-> <<>>]

\* The markup the page is loaded from:
\*   <body><p><b>a</b>bc</p><p>d</p></body>
FreshTree ==
    << [kind |-> "doc", tag |-> "", data |-> <<>>, kids |-> <<2>>],
       ElementNode("BODY", <<3, 7>>),
       ElementNode("P", <<4, 6>>),
       ElementNode("B", <<5>>),
       TextNode(<<"a">>),
       TextNode(<<"b", "c">>),
       ElementNode("P", <<8>>),
       TextNode(<<"d">>) >>

Nodes(dom) == 1..Len(dom)

isText(dom, n) == n # Null /\ dom[n].kind = "text"

\* node.childNodes
childNodes(dom, n) == dom[n].kids

\* node.parentNode
parentNode(dom, n) ==
    LET parents == {p \in Nodes(dom) : \E i \in 1..Len(dom[p].kids) : dom[p].kids[i] = n}
    IN IF parents = {} THEN Null ELSE CHOOSE p \in parents : TRUE

\* node.textContent.length of a text node
textLength(dom, n) == Len(dom[n].data)

\* document order (pre-order) of the subtree of n
RECURSIVE PreOrder(_, _)
PreOrder(dom, n) ==
    <<n>> \o Concat([i \in 1..Len(dom[n].kids) |-> PreOrder(dom, dom[n].kids[i])])

\* document.getElementsByTagName(tag): the elements with that tag, in document order
getElementsByTagName(dom, tag) ==
    SelectSeq(PreOrder(dom, Doc), LAMBDA n : dom[n].kind = "elem" /\ dom[n].tag = tag)

\* the text leaves of the document in document order
TextLeaves(dom) == SelectSeq(PreOrder(dom, Doc), LAMBDA n : dom[n].kind = "text")

\* the characters of the document in document order
DocumentText(dom) ==
    LET leaves == TextLeaves(dom)
    IN Concat([i \in 1..Len(leaves) |-> dom[leaves[i]].data])

\* Text.splitText(offset): IndexSizeError when offset exceeds the length (a
\* negative offset converts to a huge unsigned long); otherwise the node keeps
\* data[0, offset) and a new text node with the rest is inserted after it.
splitText(dom, n, offset) ==
    IF offset < 0 \/ offset > Len(dom[n].data)
    THEN [dom |-> dom, err |-> TRUE, new |-> Null]
    ELSE LET new == Len(dom) + 1
             p == parentNode(dom, n)
             d1 == Append([dom EXCEPT ![n].data = SubSeq(dom[n].data, 1, offset)],
                          TextNode(SubSeq(dom[n].data, offset + 1, Len(dom[n].data))))
             i == IndexOf(dom[p].kids, n)
         IN [dom |-> IF p = Null THEN d1
                     ELSE [d1 EXCEPT ![p].kids = SubSeq(dom[p].kids, 1, i) \o <<new>>
                                                 \o SubSeq(dom[p].kids, i + 1, Len(dom[p].kids))],
             err |-> FALSE,
             new |-> new]

\* node.nextSibling
nextSibling(dom, n) ==
    LET p == parentNode(dom, n)
        i == IndexOf(dom[p].kids, n)
    IN IF p = Null \/ i = Len(dom[p].kids) THEN Null ELSE dom[p].kids[i + 1]

\* ------------------------------------------------------- getTextNodeOffset
\* a variant of the loop that counts the text nodes passed, not their characters
RECURSIVE getTextNodeOffsetLoopCountingNodes(_, _, _, _)
getTextNodeOffsetLoopCountingNodes(dom, nodeStack, textNode, offset) ==
    IF nodeStack = <<>> THEN offset
    ELSE LET currentNode == nodeStack[Len(nodeStack)]
             stack == SubSeq(nodeStack, 1, Len(nodeStack) - 1)
                        \o Reverse(childNodes(dom, currentNode))
         IN IF isText(dom, currentNode) /\ currentNode # textNode
            THEN getTextNodeOffsetLoopCountingNodes(dom, stack, textNode, offset + 1)
            ELSE IF isText(dom, currentNode) THEN offset
            ELSE getTextNodeOffsetLoopCountingNodes(dom, stack, textNode, offset)

\* the while loop of getTextNodeOffset; the top of the stack is its last entry
RECURSIVE getTextNodeOffsetLoop(_, _, _, _)
getTextNodeOffsetLoop(dom, nodeStack, textNode, offset) ==
    IF nodeStack = <<>> THEN offset
    ELSE LET currentNode == nodeStack[Len(nodeStack)]
             stack == SubSeq(nodeStack, 1, Len(nodeStack) - 1)
                        \o Reverse(childNodes(dom, currentNode))
         IN IF isText(dom, currentNode) /\ currentNode # textNode
            THEN getTextNodeOffsetLoop(dom, stack, textNode,
                                       offset + textLength(dom, currentNode))
            ELSE IF isText(dom, currentNode) THEN offset
            ELSE getTextNodeOffsetLoop(dom, stack, textNode, offset)

getTextNodeOffset(dom, parentElement, textNode) ==
    getTextNodeOffsetLoop(dom, <<parentElement>>, textNode, 0)

\* ---------------------------------------------- getSelectedTextNodePosition
\* err: selectedTextNode is undefined (TypeError on .parentElement)
getSelectedTextNodePosition(dom, selectedTextNode) ==
    IF selectedTextNode = Null
    THEN [err |-> TRUE, pos |-> <<>>]
    ELSE LET parentElement == parentNode(dom, selectedTextNode)
             parentTagName == dom[parentElement].tag
             similarElements == getElementsByTagName(dom, parentTagName)
         IN [err |-> FALSE,
             pos |-> [parentTagName |-> parentTagName,
                      parentIndex |-> IndexOf(similarElements, parentElement) - 1,
                      textNodeOffset |-> getTextNodeOffset(dom, parentElement, selectedTextNode),
                      textNodeLength |-> textLength(dom, selectedTextNode)]]

\* a variant that adds the new addresses to the stored array
storeSelectedNodesAppending(dom, store, selectedTextNodes) ==
    LET positions == [i \in 1..Len(selectedTextNodes) |->
                         getSelectedTextNodePosition(dom, selectedTextNodes[i])]
    IN IF \E i \in 1..Len(positions) : positions[i].err
       THEN [err |-> TRUE, store |-> store]
       ELSE [err |-> FALSE, store |-> store \o [i \in 1..Len(positions) |-> positions[i].pos]]

\* storeSelectedNodes: the new value of the 'selection' slot of localStorage
storeSelectedNodes(dom, store, selectedTextNodes) ==
    LET positions == [i \in 1..Len(selectedTextNodes) |->
                         getSelectedTextNodePosition(dom, selectedTextNodes[i])]
    IN IF \E i \in 1..Len(positions) : positions[i].err
       THEN [err |-> TRUE, store |-> store]
       ELSE [err |-> FALSE, store |-> [i \in 1..Len(positions) |-> positions[i].pos]]

\* ------------------------------------------------------------ wrapHighlight
\* a variant that replaces the node by a wrapper it never filled
wrapHighlightWithoutCopy(dom, node) ==
    LET wrapper == Len(dom) + 1
        clone == Len(dom) + 2
        p == parentNode(dom, node)
        i == IndexOf(dom[p].kids, node)
        d1 == dom \o << ElementNode("SPAN", <<>>),
                        [dom[node] EXCEPT !.kids = <<>>] >>
    IN IF p = Null
       THEN [dom |-> d1, err |-> TRUE, clone |-> clone]
       ELSE [dom |-> [d1 EXCEPT ![p].kids[i] = wrapper], err |-> FALSE, clone |-> clone]

\* createElement('span'), cloneNode(false) into it, parentNode.replaceChild
wrapHighlight(dom, node) ==
    LET wrapper == Len(dom) + 1
        clone == Len(dom) + 2
        p == parentNode(dom, node)
        i == IndexOf(dom[p].kids, node)
        d1 == dom \o << ElementNode("SPAN", <<clone>>),
                        [dom[node] EXCEPT !.kids = <<>>] >>
    IN IF p = Null
       THEN [dom |-> d1, err |-> TRUE, clone |-> clone]
       ELSE [dom |-> [d1 EXCEPT ![p].kids[i] = wrapper], err |-> FALSE, clone |-> clone]

\* selectedNodes.forEach(node => wrapHighlight(node)); clones: the leaves now
\* inside the wrappers
RECURSIVE wrapAll(_, _, _)
wrapAll(dom, selectedNodes, clones) ==
    IF selectedNodes = <<>> THEN [dom |-> dom, err |-> FALSE, clones |-> clones]
    ELSE LET w == wrapHighlight(dom, Head(selectedNodes))
         IN IF w.err THEN [dom |-> w.dom, err |-> TRUE, clones |-> clones]
            ELSE wrapAll(w.dom, Tail(selectedNodes), Append(clones, w.clone))


\* --------------------------------------------------- getNodesIfSameStartEnd
\* The result of a collection: the document as mutated, the collected nodes,
\* whether an exception was thrown, and the trace of the traversal (the nodes
\* popped, the nodes created by splitText, and every successful call of
\* splitText: its node, its offset and the number of nodes popped by then).
\* getNodesIfSameStartEnd traverses nothing: it splits the container, then the
\* node that split created.
getNodesIfSameStartEnd(dom, range) ==
    LET s1 == splitText(dom, range.startContainer, range.startOffset)
        selectedContainer == nextSibling(s1.dom, range.startContainer)
        s2 == splitText(s1.dom, selectedContainer, range.endOffset - range.startOffset)
        first == [node |-> range.startContainer, offset |-> range.startOffset, at |-> 0]
        second == [node |-> selectedContainer,
                   offset |-> range.endOffset - range.startOffset, at |-> 0]
        none == [dom |-> dom, err |-> TRUE, selectedNodes |-> <<>>,
                 popped |-> <<>>, created |-> {}, splits |-> <<>>]
    IN IF s1.err THEN none
       ELSE IF selectedContainer = Null \/ s2.err
            THEN [none EXCEPT !.dom = s1.dom, !.created = {s1.new}, !.splits = <<first>>]
       ELSE [dom |-> s2.dom, err |-> FALSE, selectedNodes |-> <<selectedContainer>>,
             popped |-> <<>>, created |-> {s1.new, s2.new}, splits |-> <<first, second>>]

\* ---------------------------------------------------------- getSelectedNodes
\* The state of the traversal: s.nodesStack (top last), s.selectedNodes,
\* s.withinSelectedRange, s.dom; s.stop after the break or an exception.

\* lines 138-142: pop currentNode and push its children, last child first
popAndPush(s) ==
    LET currentNode == s.nodesStack[Len(s.nodesStack)]
    IN [s EXCEPT !.nodesStack = SubSeq(@, 1, Len(@) - 1)
                                  \o Reverse(childNodes(s.dom, currentNode)),
                 !.popped = Append(@, currentNode)]

\* a variant that walks on from the split node to its new sibling
visitStartThenSibling(range, s, currentNode) ==
    IF isText(s.dom, currentNode)
    THEN LET sp == splitText(s.dom, currentNode, range.startOffset)
         IN IF sp.err THEN [s EXCEPT !.err = TRUE, !.stop = TRUE]
            ELSE [s EXCEPT !.dom = sp.dom,
                           !.nodesStack = Append(@, sp.new),
                           !.selectedNodes = Append(@, nextSibling(sp.dom, currentNode)),
                           !.created = @ \cup {sp.new},
                           !.splits = Append(@, [node |-> currentNode,
                                                 offset |-> range.startOffset,
                                                 at |-> Len(s.popped)]),
                           !.withinSelectedRange = TRUE]
    ELSE [s EXCEPT !.withinSelectedRange = TRUE]

\* lines 148-156: currentNode === startContainer
visitStart(range, s, currentNode) ==
    IF isText(s.dom, currentNode)
    THEN LET sp == splitText(s.dom, currentNode, range.startOffset)
         IN IF sp.err THEN [s EXCEPT !.err = TRUE, !.stop = TRUE]
            ELSE [s EXCEPT !.dom = sp.dom,
                           !.selectedNodes = Append(@, nextSibling(sp.dom, currentNode)),
                           !.created = @ \cup {sp.new},
                           !.splits = Append(@, [node |-> currentNode,
                                                 offset |-> range.startOffset,
                                                 at |-> Len(s.popped)]),
                           !.withinSelectedRange = TRUE]
    ELSE [s EXCEPT !.withinSelectedRange = TRUE]

\* lines 157-163: currentNode === endContainer
visitEnd(range, s, currentNode) ==
    IF isText(s.dom, currentNode)
    THEN LET sp == splitText(s.dom, currentNode, range.endOffset)
         IN IF sp.err THEN [s EXCEPT !.err = TRUE, !.stop = TRUE]
            ELSE [s EXCEPT !.dom = sp.dom,
                           !.selectedNodes = Append(@, currentNode),
                           !.created = @ \cup {sp.new},
                           !.splits = Append(@, [node |-> currentNode,
                                                 offset |-> range.endOffset,
                                                 at |-> Len(s.popped)]),
                           !.stop = TRUE]
    ELSE [s EXCEPT !.stop = TRUE]

\* lines 164-169: a text node between the two containers
visitOther(s, currentNode) ==
    IF s.withinSelectedRange /\ isText(s.dom, currentNode)
    THEN [s EXCEPT !.selectedNodes = Append(@, currentNode)]
    ELSE s

\* lines 136-170: the while loop
RECURSIVE getSelectedNodesLoop(_, _)
getSelectedNodesLoop(range, s) ==
    IF s.stop \/ s.nodesStack = <<>> THEN s
    ELSE LET currentNode == s.nodesStack[Len(s.nodesStack)]
             s0 == popAndPush(s)
         IN IF currentNode = range.startContainer
            THEN getSelectedNodesLoop(range, visitStart(range, s0, currentNode))
            ELSE IF currentNode = range.endContainer
            THEN getSelectedNodesLoop(range, visitEnd(range, s0, currentNode))
            ELSE getSelectedNodesLoop(range, visitOther(s0, currentNode))

getSelectedNodes(dom, range) ==
    IF range.startContainer = range.endContainer /\ isText(dom, range.startContainer)
    THEN getNodesIfSameStartEnd(dom, range)
    ELSE LET s == getSelectedNodesLoop(range,
                      [dom |-> dom, nodesStack |-> <<Doc>>, selectedNodes |-> <<>>,
                       withinSelectedRange |-> FALSE, err |-> FALSE, stop |-> FALSE,
                       popped |-> <<>>, created |-> {}, splits |-> <<>>])
         IN [dom |-> s.dom, err |-> s.err, selectedNodes |-> s.selectedNodes,
             popped |-> s.popped, created |-> s.created, splits |-> s.splits]

\* --------------------------------------------------------- restoreContainer
\* lines 193-210: the while loop; it ends when pop() yields undefined
RECURSIVE restoreContainerLoop(_, _, _, _, _)
restoreContainerLoop(dom, nodeStack, textNodeOffset, currentOffset, finalOffset) ==
    IF nodeStack = <<>> \/ nodeStack[Len(nodeStack)] = Null
    THEN [node |-> Null, offset |-> finalOffset]
    ELSE LET currentNode == nodeStack[Len(nodeStack)]
             stack == SubSeq(nodeStack, 1, Len(nodeStack) - 1)
                        \o Reverse(childNodes(dom, currentNode))
         IN IF isText(dom, currentNode)
            THEN IF currentOffset + textLength(dom, currentNode) >= textNodeOffset
                 THEN [node |-> currentNode, offset |-> textNodeOffset - currentOffset]
                 ELSE restoreContainerLoop(dom, stack, textNodeOffset,
                                           currentOffset + textLength(dom, currentNode),
                                           textNodeOffset - currentOffset)
            ELSE restoreContainerLoop(dom, stack, textNodeOffset, currentOffset, finalOffset)

\* document.getElementsByTagName(parentTagName)[parentIndex], undefined when
\* there is no such element
elementAt(dom, parentTagName, parentIndex) ==
    LET elements == getElementsByTagName(dom, parentTagName)
    IN IF parentIndex + 1 \in 1..Len(elements) THEN elements[parentIndex + 1] ELSE Null

restoreContainer(dom, nodeInfo) ==
    LET parentElement == elementAt(dom, nodeInfo.parentTagName, nodeInfo.parentIndex)
        r == restoreContainerLoop(dom, <<parentElement>>, nodeInfo.textNodeOffset, 0, 0)
    IN [node |-> IF r.node = Null THEN parentElement ELSE r.node, offset |-> r.offset]

\* restoreSelectedNodes: the range rebuilt from the stored pair
restoreSelectedNodes(dom, store) ==
    LET s == restoreContainer(dom, store[1])
        e == restoreContainer(dom, store[2])
    IN [startContainer |-> s.node, startOffset |-> s.offset,
        endContainer |-> e.node, endOffset |-> e.offset + store[2].textNodeLength]


\* ------------------------------------------------- the host's Selection API
\* The boundary points (node, offset) of the subtree of n, in the order the
\* DOM gives them: an element's point k lies after its k-th child and before
\* the next one; a text node's point k lies after its k-th character.
RECURSIVE BoundaryPoints(_, _)
BoundaryPoints(dom, n) ==
    IF dom[n].kind = "text"
    THEN [k \in 1..(Len(dom[n].data) + 1) |-> <<n, k - 1>>]
    ELSE <<<<n, 0>>>>
         \o Concat([k \in 1..Len(dom[n].kids) |->
                       BoundaryPoints(dom, dom[n].kids[k]) \o <<<<n, k>>>>])

\* window.getSelection().getRangeAt(0) when the selection runs from the i-th
\* to the j-th boundary point of the document
RangeAt(points, i, j) ==
    [startContainer |-> points[i][1], startOffset |-> points[i][2],
     endContainer |-> points[j][1], endOffset |-> points[j][2]]

\* selection.isCollapsed
isCollapsed(range) ==
    range.startContainer = range.endContainer /\ range.startOffset = range.endOffset

\* range.toString(): the characters between the i-th and the j-th boundary point
PlainText(dom, points, i, j) ==
    LET inside == SelectSeq(SubSeq(points, i + 1, j),
                            LAMBDA p : dom[p[1]].kind = "text" /\ p[2] >= 1)
    IN [m \in 1..Len(inside) |-> dom[inside[m][1]].data[inside[m][2]]]

\* the concatenated content of a sequence of text nodes
ContentOf(dom, nodes) == Concat([i \in 1..Len(nodes) |-> dom[nodes[i]].data])

\* no selection is being handled
NoRange == [startContainer |-> Null, startOffset |-> 0, endContainer |-> Null, endOffset |-> 0]

\* A boundary point of a live Range after node.splitText(offset) on document
\* dom: a point of node past the offset moves into the new node, a point of
\* the parent after node moves one child on.
pointAfterSplit(dom, point, node, offset) ==
    LET p == parentNode(dom, node)
    IN IF point[1] = node /\ point[2] > offset
       THEN <<Len(dom) + 1, point[2] - offset>>
       ELSE IF p # Null /\ point[1] = p /\ point[2] >= IndexOf(dom[p].kids, node)
       THEN <<p, point[2] + 1>>
       ELSE point

\* A boundary point of a live Range after node.parentNode.replaceChild(wrapper,
\* node) on document dom, node a text node: node is removed, so a point of node
\* moves to the parent at node's index, and so does the point of the parent
\* just after node; then the wrapper is inserted at that index.
pointAfterReplace(dom, point, node) ==
    LET p == parentNode(dom, node)
        index == IndexOf(dom[p].kids, node) - 1
    IN IF p = Null THEN point
       ELSE IF point[1] = node \/ (point[1] = p /\ point[2] = index + 1)
       THEN <<p, index>>
       ELSE point

\* the live Range after the first n calls of splitText of a collection
RECURSIVE liveAfterSplits(_, _, _, _)
liveAfterSplits(dom, splits, n, live) ==
    IF n = 0 THEN live
    ELSE CHOOSE after \in
             {[dom |-> splitText(before.dom, splits[n].node, splits[n].offset).dom,
               start |-> pointAfterSplit(before.dom, before.start,
                                         splits[n].node, splits[n].offset),
               end |-> pointAfterSplit(before.dom, before.end,
                                       splits[n].node, splits[n].offset)] :
                 before \in {liveAfterSplits(dom, splits, n - 1, live)}} : TRUE

\* the live Range after the first n calls of wrapHighlight
RECURSIVE liveAfterWraps(_, _, _, _)
liveAfterWraps(dom, selectedNodes, n, live) ==
    IF n = 0 THEN live
    ELSE CHOOSE after \in
             {[dom |-> wrapHighlight(before.dom, selectedNodes[n]).dom,
               start |-> pointAfterReplace(before.dom, before.start, selectedNodes[n]),
               end |-> pointAfterReplace(before.dom, before.end, selectedNodes[n])] :
                 before \in {liveAfterWraps(dom, selectedNodes, n - 1, live)}} : TRUE

\* ------------------------------------------------------------- the handlers
NoCollect ==
    [err |-> FALSE, selectedNodes |-> <<>>, popped |-> <<>>, created |-> {}, splits |-> <<>>]

\* a variant that takes every selection for a selection of content
isSelectedContentAlways(range) == TRUE

\* line 252
isSelectedContent(range) == isCollapsed(range) = FALSE

\* The outcome of a handler.  threw: an exception left the handler; saved:
\* localStorage.setItem was reached; mid: the document when the collection
\* ended; clones: the leaves put inside wrappers; collect: the collection.
quiet(dom, store) ==
    [dom |-> dom, store |-> store, threw |-> FALSE, saved |-> FALSE,
     ran |-> FALSE, mid |-> dom, clones |-> <<>>, collect |-> NoCollect]

\* the outcome when lines 262-267 have run: c is what getSelectedNodes did,
\* st what storeSelectedNodes did and w what the forEach of wrapHighlight did
captured(dom, store, c, st, w) ==
    IF c.err \/ st.err
    THEN [quiet(dom, store) EXCEPT !.dom = c.dom, !.threw = TRUE, !.ran = TRUE,
                                   !.mid = c.dom,
                                   !.collect = [x \in DOMAIN NoCollect |-> c[x]]]
    ELSE [dom |-> w.dom, store |-> st.store, threw |-> w.err, saved |-> TRUE,
          ran |-> TRUE, mid |-> c.dom, clones |-> w.clones,
          collect |-> [x \in DOMAIN NoCollect |-> c[x]]]

\* lines 264-267 after getSelectedNodes has returned c; the array given to
\* storeSelectedNodes holds undefined twice when nothing was collected
storeAndWrap(dom, store, c) ==
    captured(dom, store, c,
             IF c.err THEN [err |-> TRUE, store |-> store]
             ELSE storeSelectedNodes(c.dom, store,
                      IF c.selectedNodes = <<>> THEN <<Null, Null>>
                      ELSE <<c.selectedNodes[1], c.selectedNodes[Len(c.selectedNodes)]>>),
             wrapAll(c.dom, c.selectedNodes, <<>>))

\* lines 242-269: the mouseup listener
mouseupListener(dom, store, range) ==
    IF ~isSelectedContent(range) THEN quiet(dom, store)
    ELSE storeAndWrap(dom, store, getSelectedNodes(dom, range))

\* selection.getRangeAt(0) as the next listener of the same event finds it,
\* after run h of a listener on document dom and Range range
liveRange(dom, range, h) ==
    LET live == [dom |-> dom,
                 start |-> <<range.startContainer, range.startOffset>>,
                 end |-> <<range.endContainer, range.endOffset>>]
    IN CHOOSE r \in
           {[startContainer |-> wrapped.start[1], startOffset |-> wrapped.start[2],
             endContainer |-> wrapped.end[1], endOffset |-> wrapped.end[2]] :
               wrapped \in {liveAfterWraps(dom, h.collect.selectedNodes, Len(h.clones),
                                liveAfterSplits(dom, h.collect.splits,
                                                Len(h.collect.splits), live))}} : TRUE

\* the outcome when lines 273-275 have run: c is what getSelectedNodes did and
\* w what the forEach of wrapHighlight did
restored(dom, store, c, w) ==
    IF c.err
    THEN [quiet(dom, store) EXCEPT !.dom = c.dom, !.threw = TRUE, !.ran = TRUE,
                                   !.mid = c.dom,
                                   !.collect = [x \in DOMAIN NoCollect |-> c[x]]]
    ELSE [quiet(dom, store) EXCEPT !.dom = w.dom, !.threw = w.err, !.ran = TRUE,
                                   !.mid = c.dom, !.clones = w.clones,
                                   !.collect = [x \in DOMAIN NoCollect |-> c[x]]]

\* line 275 after getSelectedNodes has returned c
wrapRestored(dom, store, c) ==
    restored(dom, store, c, wrapAll(c.dom, c.selectedNodes, <<>>))

\* lines 271-276: restoration when the script starts
restoreOnLoad(dom, store) ==
    IF store = <<>> THEN quiet(dom, store)
    ELSE wrapRestored(dom, store, getSelectedNodes(dom, restoreSelectedNodes(dom, store)))


\* --------------------------------------------------- what the claims observe
\* The address of a text leaf as the data model defines it: the tag of its
\* parent element, the rank of that element among the elements of the same tag
\* in document order, the number of characters of the parent's text before
\* the leaf, and the leaf's length.
AddressOf(dom, leaf) ==
    LET parent == parentNode(dom, leaf)
        order == PreOrder(dom, Doc)
        within == PreOrder(dom, parent)
    IN [parentTagName |-> dom[parent].tag,
        parentIndex |-> Cardinality({i \in 1..(IndexOf(order, parent) - 1) :
                            /\ dom[order[i]].kind = "elem"
                            /\ dom[order[i]].tag = dom[parent].tag}),
        textNodeOffset |-> Len(ContentOf(dom, SelectSeq(SubSeq(within, 1, IndexOf(within, leaf) - 1),
                                                    LAMBDA n : dom[n].kind = "text"))),
        textNodeLength |-> Len(dom[leaf].data)]

\* the number of highlight wrappers around node n
RECURSIVE WrapDepth(_, _)
WrapDepth(dom, n) ==
    LET p == parentNode(dom, n)
    IN IF p = Null THEN 0
       ELSE WrapDepth(dom, p) + (IF dom[p].kind = "elem" /\ dom[p].tag = "SPAN" THEN 1 ELSE 0)

\* the leaf of the document that holds character c (the characters of
\* FreshTree are distinct)
LeafOf(dom, c) == CHOOSE n \in RangeOf(TextLeaves(dom)) : c \in RangeOf(dom[n].data)

\* ------------------------------------------------------------------- state
VARIABLES
    dom,        \* the live document
    store,      \* localStorage['selection']: <<>> (absent) or the stored array
    listeners,  \* mouseup listeners registered on the document
    pending,    \* listeners the mouseup event being dispatched has yet to call
    sel,        \* the live Range of the selection while an event is dispatched
    captures,   \* calls of the mouseup listener, made or due, so far
    cap,        \* the most recent capture that reached localStorage.setItem
    last,       \* the most recent run of a handler
    probe       \* the most recent call of getTextNodeOffset made on its own

vars == <<dom, store, listeners, pending, sel, captures, cap, last, probe>>

NoRun ==
    [op |-> "init", call |-> 0, collapsed |-> FALSE, textual |-> FALSE, fresh |-> TRUE,
     ran |-> FALSE, threw |-> FALSE, saved |-> FALSE, collectOk |-> FALSE,
     plain |-> <<>>, collected |-> <<>>, hi |-> <<>>, decodeFail |-> FALSE,
     nodes |-> <<>>, popped |-> <<>>, created |-> {}, splits |-> <<>>,
     order |-> <<>>, pre |-> <<>>, again |-> FALSE, prevHi |-> <<>>]

NoCapture ==
    [fresh |-> FALSE, textual |-> FALSE, plain |-> <<>>, pair |-> <<>>, before |-> <<>>]

NoProbe ==
    [fn |-> "none", ancestor |-> Null, leaf |-> Null, result |-> 0,
     decoded |-> [node |-> Null, offset |-> 0]]

\* what a run h of a handler on document d did
RunOf(op, d, h) ==
    [NoRun EXCEPT !.op = op, !.fresh = (d = FreshTree), !.ran = h.ran, !.threw = h.threw,
                  !.saved = h.saved, !.collectOk = h.ran /\ ~h.collect.err,
                  !.collected = ContentOf(h.mid, h.collect.selectedNodes),
                  !.hi = ContentOf(h.dom, h.clones),
                  !.nodes = h.collect.selectedNodes, !.popped = h.collect.popped,
                  !.created = h.collect.created, !.splits = h.collect.splits,
                  !.order = LET order == PreOrder(h.mid, Doc)
                            IN [k \in 1..Len(h.collect.selectedNodes) |->
                                   IndexOf(order, h.collect.selectedNodes[k])],
                  !.pre = d]

\* the page has been loaded with nothing in localStorage: selection() has
\* registered its listener and restored nothing
Init ==
    /\ dom = FreshTree
    /\ store = <<>>
    /\ listeners = 1
    /\ pending = 0
    /\ sel = NoRange
    /\ captures = 0
    /\ cap = NoCapture
    /\ last = NoRun
    /\ probe = NoProbe

\* One listener of a mouseup event runs on the selection from the i-th to the
\* j-th boundary point; left listeners are still to be called after it.  The
\* Range is followed until the last listener has run: the next event takes
\* the selection the user has made by then.
Capture(points, i, j, left) ==
    \E range \in {RangeAt(points, i, j)} :
    \E h \in {mouseupListener(dom, store, range)} :
    \E plain \in {PlainText(dom, points, i, j)} :
        LET textual == isText(dom, range.startContainer) /\ isText(dom, range.endContainer)
            n == Len(h.collect.selectedNodes)
        IN /\ dom' = h.dom
           /\ store' = h.store
           /\ last' = [RunOf("mouseup", dom, h) EXCEPT
                          !.call = listeners - left,
                          !.collapsed = isCollapsed(range),
                          !.textual = textual,
                          !.plain = plain]
           /\ cap' = IF h.saved
                     THEN [fresh |-> dom = FreshTree, textual |-> textual,
                           plain |-> plain, before |-> store,
                           pair |-> <<AddressOf(h.mid, h.collect.selectedNodes[1]),
                                      AddressOf(h.mid, h.collect.selectedNodes[n])>>]
                     ELSE cap
           /\ pending' = left
           /\ sel' = IF left = 0 THEN NoRange ELSE liveRange(dom, range, h)
           /\ UNCHANGED <<listeners, probe>>

\* the user releases the mouse button; the selection starts and ends in text;
\* the first listener is called
MouseUp ==
    /\ pending = 0
    /\ captures + listeners <= MaxCaptures
    /\ captures' = captures + listeners
    /\ \E points \in {BoundaryPoints(dom, Doc)} :
       \E i \in 1..Len(points) : \E j \in i..Len(points) :
          /\ isText(dom, points[i][1])
          /\ isText(dom, points[j][1])
          /\ Capture(points, i, j, listeners - 1)

\* the user releases the mouse button; the selection starts and ends anywhere;
\* the first listener is called
MouseUpAny ==
    /\ pending = 0
    /\ captures + listeners <= MaxAnyCaptures
    /\ captures' = captures + listeners
    /\ \E points \in {BoundaryPoints(dom, Doc)} :
       \E i \in 1..Len(points) : \E j \in i..Len(points) :
          Capture(points, i, j, listeners - 1)

\* the next listener of the mouseup event being dispatched is called, on the
\* selection as the listeners before it left it
NextListener ==
    /\ pending > 0
    /\ UNCHANGED captures
    /\ \E points \in {BoundaryPoints(dom, Doc)} :
          Capture(points,
                  IndexOf(points, <<sel.startContainer, sel.startOffset>>),
                  IndexOf(points, <<sel.endContainer, sel.endOffset>>),
                  pending - 1)

\* whether a stored address names an element the document does not have
DecodeFails(d, s) ==
    \E i \in 1..Len(s) : elementAt(d, s[i].parentTagName, s[i].parentIndex) = Null

\* the page is loaded again from its markup and the script runs: selection()
Reload ==
    /\ pending = 0
    /\ \E h \in {restoreOnLoad(FreshTree, store)} :
       /\ dom' = h.dom
       /\ store' = h.store
       /\ listeners' = 1
       /\ last' = [RunOf("load", FreshTree, h) EXCEPT !.decodeFail = DecodeFails(FreshTree, store)]
       /\ UNCHANGED <<pending, sel, captures, cap, probe>>

\* the script is run once more on the page as it is: selection() again
Rerun ==
    /\ pending = 0
    /\ listeners < MaxListeners
    /\ \E h \in {restoreOnLoad(dom, store)} :
          /\ dom' = h.dom
          /\ store' = h.store
          /\ last' = [RunOf("rerun", dom, h) EXCEPT
                         !.decodeFail = DecodeFails(dom, store),
                         !.again = (last.op = "load" /\ last.ran /\ ~last.threw),
                         !.prevHi = last.hi]
    /\ listeners' = listeners + 1
    /\ UNCHANGED <<pending, sel, captures, cap, probe>>

Next == MouseUp \/ NextListener \/ Reload \/ Rerun

Spec == Init /\ [][Next]_vars

NextAny == MouseUpAny \/ NextListener \/ Reload \/ Rerun

\* the same program with selections whose containers may be elements
SpecAny == Init /\ [][NextAny]_vars

\* getTextNodeOffset and the address codec as functions of their own: the
\* document is the page as loaded or as one capture leaves it, and the
\* functions are applied to any element and any text leaf of it
InitOffset ==
    /\ \E points \in {BoundaryPoints(FreshTree, Doc)} :
       \E i \in 1..Len(points) : \E j \in i..Len(points) :
       \E h \in {mouseupListener(FreshTree, <<>>, RangeAt(points, i, j))} :
          /\ isText(FreshTree, points[i][1])
          /\ isText(FreshTree, points[j][1])
          /\ dom = h.dom
          /\ store = h.store
    /\ listeners = 1
    /\ pending = 0
    /\ sel = NoRange
    /\ captures = 0
    /\ cap = NoCapture
    /\ last = NoRun
    /\ probe = NoProbe

CallOffset ==
    /\ \E ancestor \in RangeOf(PreOrder(dom, Doc)) : \E leaf \in RangeOf(TextLeaves(dom)) :
          /\ dom[ancestor].kind = "elem"
          /\ probe' = [NoProbe EXCEPT !.fn = "offset", !.ancestor = ancestor, !.leaf = leaf,
                          !.result = getTextNodeOffset(dom, ancestor, leaf)]
    /\ UNCHANGED <<dom, store, listeners, pending, sel, captures, cap, last>>

\* a text leaf is encoded and the address decoded against the same document
CallCodec ==
    /\ \E leaf \in RangeOf(TextLeaves(dom)) :
          probe' = [NoProbe EXCEPT
                       !.fn = "codec", !.leaf = leaf, !.ancestor = parentNode(dom, leaf),
                       !.decoded = restoreContainer(dom,
                                       getSelectedTextNodePosition(dom, leaf).pos)]
    /\ UNCHANGED <<dom, store, listeners, pending, sel, captures, cap, last>>

NextOffset == CallOffset \/ CallCodec

SpecOffset == InitOffset /\ [][NextOffset]_vars


\* -------------------------------------------------------------- properties
IsWrapper(d, n) == d[n].kind = "elem" /\ d[n].tag = "SPAN"

SubtreeText(d, n) ==
    ContentOf(d, SelectSeq(PreOrder(d, n), LAMBDA m : d[m].kind = "text"))

\* C1: after a capture of a selection between text leaves of the page as
\* loaded, the restoration on the next load completes without an exception and
\* highlights leaves whose concatenated content is the text that was selected.
C1_CaptureRestoreRoundTrip ==
    (last.op = "load" /\ last.ran /\ cap.fresh /\ cap.textual)
        => (~last.threw /\ last.hi = cap.plain)

\* C2: the leaves getSelectedNodes collects for a valid range, whose
\* containers may be text leaves or elements, are in document order and their
\* concatenated content is the plain text between the two boundary points.
C2_CollectorOrderAndContent ==
    (last.op = "mouseup" /\ last.collectOk)
        => /\ last.collected = last.plain
           /\ \A k \in 1..(Len(last.order) - 1) : last.order[k] < last.order[k + 1]

\* C3: on the page as loaded, decoding the address of a text leaf returns that
\* leaf, with the offset at which its content starts in its parent's text.
C3_CodecRoundTrip ==
    (probe.fn = "codec" /\ dom = FreshTree)
        => probe.decoded = [node |-> probe.leaf,
                            offset |-> AddressOf(dom, probe.leaf).textNodeOffset]

\* C4: a restoration whose stored addresses name an element the document does
\* not have leaves the document as it was (no split, no wrapper) and throws
\* nothing.
C4_DecodeFailureContained ==
    (last.op \in {"load", "rerun"} /\ last.ran /\ last.decodeFail)
        => (dom = last.pre /\ ~last.threw)

\* C5: the slot holds exactly the pair of addresses of the most recent capture
\* that reached localStorage.setItem, and nothing of an earlier one.
C5_StoreOverwrite ==
    /\ store = cap.pair
    /\ store # <<>> => Len(store) = 2

C5_Witness ==
    /\ last.op = "mouseup" /\ last.saved
    /\ cap.before # <<>> /\ cap.before # store
    /\ store = cap.pair

\* C6: a mouseup with a collapsed selection changes neither the slot nor the
\* document.
C6_CollapsedIsNoOp ==
    [][(last'.op = "mouseup" /\ last'.collapsed) => (dom' = dom /\ store' = store)]_vars

C6_Witness ==
    last.op = "mouseup" /\ last.collapsed /\ last.textual /\ store # <<>>

\* C7 as stated: when the leaf is not under the ancestor, getTextNodeOffset
\* reports a failure and returns no ordinary offset.
C7_LeafNotFoundIsReported ==
    (probe.fn = "offset" /\ probe.leaf \notin RangeOf(PreOrder(dom, probe.ancestor)))
        => probe.result \notin Nat

\* C7 as amended: when the leaf is not under the ancestor, getTextNodeOffset
\* returns the length of the whole text of the ancestor, an ordinary offset.
C7_LeafNotFoundReturnsTextLength ==
    (probe.fn = "offset" /\ probe.leaf \notin RangeOf(PreOrder(dom, probe.ancestor)))
        => probe.result = Len(SubtreeText(dom, probe.ancestor))

C7_Witness ==
    /\ probe.fn = "offset"
    /\ probe.leaf \notin RangeOf(PreOrder(dom, probe.ancestor))
    /\ probe.result = 2
    /\ Len(dom[probe.leaf].data) > 0

\* C8: every split made during a traversal of a collection is made on the
\* node just popped, no leaf a split creates is popped by that traversal, and
\* no leaf is collected twice.  The only splits made on another node are the
\* two of getNodesIfSameStartEnd, in a collection that traverses nothing.
C8_TraversalDiscipline ==
    last.ran =>
        /\ \A k \in 1..Len(last.splits) :
              IF last.popped = <<>>
              THEN last.splits[k].at = 0 /\ Len(last.splits) <= 2 /\ Len(last.nodes) <= 1
              ELSE /\ last.splits[k].at \in 1..Len(last.popped)
                   /\ last.popped[last.splits[k].at] = last.splits[k].node
        /\ last.created \cap RangeOf(last.popped) = {}
        /\ \A k, m \in 1..Len(last.nodes) : last.nodes[k] = last.nodes[m] => k = m

C8_Witness ==
    /\ last.ran /\ ~last.threw
    /\ Len(last.splits) = 2
    /\ Len(last.nodes) >= 3
    /\ last.created \cap RangeOf(last.nodes) # {}

\* C9: a second restoration of the same stored selection, on the document the
\* first one split and wrapped, completes and leaves every leaf the first one
\* highlighted inside two nested wrappers.
C9_SecondRestoreWrapsTwice ==
    (last.op = "rerun" /\ last.again /\ last.ran)
        => /\ ~last.threw
           /\ \A c \in RangeOf(last.prevHi) : WrapDepth(dom, LeafOf(dom, c)) = 2

\* C10: the text of the document, read in document order, is always that of
\* the page as loaded.
C10_DocumentTextInvariant ==
    DocumentText(dom) = DocumentText(FreshTree)

C10_Witness ==
    /\ last.threw /\ dom # last.pre
    /\ \E n \in RangeOf(PreOrder(dom, Doc)) : IsWrapper(dom, n)

=============================================================================
